---- MODULE Spec2Model ----
(***************************************************************************)
(* canadian_band_plan.py: a batch script that merges antenna-analyzer      *)
(* sweep files, derives a VSWR curve sorted by frequency, and lays the     *)
(* curve over 17 band panels on three PDF pages.                           *)
(*                                                                         *)
(* Units.  Frequencies are integers in units of 10 Hz (1e-5 MHz), the      *)
(* vertical axis is in hundredths.  Resistance and reactance are integer   *)
(* ohms.  Floating point results (the quotient, rho, VSWR) are fixed-point *)
(* numbers truncated to 1/Scale, with the IEEE specials +inf, -inf and NaN *)
(* kept as separate kinds: [k |-> "fin", v |-> n] stands for n/Scale.      *)
(***************************************************************************)
EXTENDS Integers, Sequences, FiniteSets, TLC

VARIABLES
  pc,          \* position of the script
  dir,         \* the script's directory: file id -> [asd, content]
  files,       \* list of .asd files, sorted by name        (line 42-46)
  k,           \* number of files the read loop has consumed (line 52)
  freq,        \* frequencies, merged then sorted     (line 49, 56, 63, 77)
  resistance,  \* resistances, merged                 (line 50, 57, 64)
  reactance,   \* reactances, merged                  (line 51, 59, 65)
  rho,         \* reflection coefficient magnitudes   (line 69)
  VSWR,        \* VSWR values, computed then sorted   (line 73, 76)
  ax,          \* the panels of the figure being composed
  pdf_pages    \* the PdfPages document               (line 36)

vars == <<pc, dir, files, k, freq, resistance, reactance, rho, VSWR, ax,
          pdf_pages>>

----------------------------------------------------------------------------
(* Bounds of the model *)

MaxFiles == 2        \* directory entries
MaxTotal == 2        \* samples over all sweep files of one run
MaxCalcSamples == 1  \* samples of the single file of SpecCalc
Scale == 100         \* fixed-point resolution of the float results

(* Program constants *)

Z0 == 50             \* characteristic impedance, ohms

FreqSet == {13600, 185000, 7000000}  \* 0.136 MHz, 1.85 MHz, 70 MHz
RXSet == {<<50, 0>>, <<25, 0>>}

CalcRSet == {-50, -10, 0, 1, 25, 50, 100, 200}
CalcXSet == {-30, 0, 40}

Sample(f, r, x) == [fq |-> f, r |-> r, x |-> x]
Samples == {Sample(f, rx[1], rx[2]) : f \in FreqSet, rx \in RXSet}
CalcSamples == {Sample(185000, r, x) : r \in CalcRSet, x \in CalcXSet}

----------------------------------------------------------------------------
(* Sequence helpers *)

Range(s) == {s[i] : i \in DOMAIN s}

Perms(n) == {p \in [1..n -> 1..n] : \A i, j \in 1..n : i # j => p[i] # p[j]}

IsSorted(s) == \A i \in 1..(Len(s) - 1) : s[i] <= s[i + 1]

----------------------------------------------------------------------------
(* Floating point results *)

Fin(n) == [k |-> "fin", v |-> n]
PosInf == [k |-> "inf", v |-> 0]
NegInf == [k |-> "ninf", v |-> 0]
NaN == [k |-> "nan", v |-> 0]
One == Fin(Scale)

Abs(n) == IF n < 0 THEN -n ELSE n

\* quotient of two integers rounded toward zero
TruncDiv(a, b) ==
  IF (a >= 0) = (b > 0) THEN Abs(a) \div Abs(b) ELSE -(Abs(a) \div Abs(b))

RECURSIVE Bisect(_, _, _)
Bisect(n, lo, hi) ==
  IF lo >= hi THEN lo
  ELSE LET mid == (lo + hi + 1) \div 2
       IN IF mid * mid <= n THEN Bisect(n, mid, hi) ELSE Bisect(n, lo, mid - 1)

\* largest r with r*r <= n
ISqrt(n) == Bisect(n, 0, IF n < 46340 THEN n ELSE 46340)

square(n) == n * n

\* np.divide of two exact integer-valued floats; the result is in units of
\* 1/(Scale*Scale) so that its square root is in units of 1/Scale
divide_sq(num, den) ==
  IF den = 0
  THEN IF num = 0 THEN NaN ELSE IF num > 0 THEN PosInf ELSE NegInf
  ELSE Fin(TruncDiv(num * Scale * Scale, den))

sqrt(q) ==
  CASE q.k = "fin" -> IF q.v < 0 THEN NaN ELSE Fin(ISqrt(q.v))
    [] q.k = "inf" -> PosInf
    [] OTHER -> NaN

\* divide with a zero divisor treated as an invalid operation
divideZeroInvalid(a, b) ==
  IF b = 0 THEN NaN ELSE Fin(TruncDiv(a * Scale, b))

\* np.divide of two fixed-point values a/Scale and b/Scale
divide(a, b) ==
  IF b = 0
  THEN IF a = 0 THEN NaN ELSE IF a > 0 THEN PosInf ELSE NegInf
  ELSE Fin(TruncDiv(a * Scale, b))

\* the formula as the comment of line 68 brackets it: X^2 outside the quotient
RhoOfAsCommented(r, x) ==
  LET q == divide_sq(square(r - Z0) + square(x), square(r + Z0))
  IN sqrt(IF q.k = "fin" THEN Fin(q.v + square(x) * Scale * Scale) ELSE q)

\* the quotient without its square root
RhoOfNoSqrt(r, x) ==
  LET q == divide_sq(square(r - Z0) + square(x), square(r + Z0) + square(x))
  IN IF q.k = "fin" THEN Fin(q.v \div Scale) ELSE q

\* rho clamped to [0, 1]
RhoOfClamped(r, x) ==
  LET rh == sqrt(divide_sq(square(r - Z0) + square(x),
                           square(r + Z0) + square(x)))
  IN IF rh.k = "inf" \/ (rh.k = "fin" /\ rh.v > Scale) THEN Fin(Scale) ELSE rh

\* line 69-70
RhoOf(r, x) ==
  sqrt(divide_sq(square(r - Z0) + square(x), square(r + Z0) + square(x)))

\* numerator and denominator exchanged
VSWROfInverted(rh) ==
  CASE rh.k = "fin" -> divide(Scale - rh.v, Scale + rh.v)
    [] OTHER -> NaN

\* line 73
VSWROf(rh) ==
  CASE rh.k = "fin" -> divide(Scale + rh.v, Scale - rh.v)
    [] OTHER -> NaN      \* (1+inf)/(1-inf) = inf/-inf, and NaN propagates

----------------------------------------------------------------------------
(* The band catalog: domain, range, bars and labels of every panel *)

Band2200m ==
  [name |-> "2200m",
   left |-> 13560, right |-> 13790, ylo |-> -100, yhi |-> 1000,
   bars |-> <<
       [x |-> 13570, w |-> 187, y |-> -100, h |-> 200, c |-> "lightsalmon"],
       [x |-> 13740, w |-> 22, y |-> -100, h |-> 200, c |-> "lightskyblue"],
       [x |-> 13760, w |-> 20, y |-> -100, h |-> 200, c |-> "gold"] >>,
   labels |-> <<
       [x |-> 13560, y |-> 810, s |-> " 2200m"],
       [x |-> 13655, y |-> -40, s |-> "CW"],
       [x |-> 13747, y |-> -40, s |-> "Digi"],
       [x |-> 13765, y |-> -40, s |-> "QRSS"] >>]

Band630m ==
  [name |-> "630m",
   left |-> 47160, right |-> 47940, ylo |-> -100, yhi |-> 1000,
   bars |-> <<
       [x |-> 47200, w |-> 700, y |-> -100, h |-> 200, c |-> "lightsalmon"],
       [x |-> 47500, w |-> 400, y |-> -100, h |-> 100, c |-> "lightskyblue"] >>,
   labels |-> <<
       [x |-> 47160, y |-> 810, s |-> " 630m"],
       [x |-> 47350, y |-> -40, s |-> "CW"],
       [x |-> 47680, y |-> -40, s |-> "Digi"] >>]

Band160m ==
  [name |-> "160m",
   left |-> 179000, right |-> 201000, ylo |-> -100, yhi |-> 1000,
   bars |-> <<
       [x |-> 180000, w |-> 4400, y |-> -100, h |-> 200, c |-> "lightsalmon"],
       [x |-> 180000, w |-> 1000, y |-> -100, h |-> 100, c |-> "lightskyblue"],
       [x |-> 184000, w |-> 16000, y |-> -100, h |-> 200, c |-> "limegreen"] >>,
   labels |-> <<
       [x |-> 179000, y |-> 810, s |-> " 160m"],
       [x |-> 181700, y |-> -40, s |-> "CW"],
       [x |-> 191500, y |-> -40, s |-> "LSB"],
       [x |-> 180100, y |-> -81, s |-> "Digi"] >>]

Band80m ==
  [name |-> "80m",
   left |-> 347500, right |-> 402500, ylo |-> -100, yhi |-> 1000,
   bars |-> <<
       [x |-> 350000, w |-> 8900, y |-> -100, h |-> 200, c |-> "lightsalmon"],
       [x |-> 358000, w |-> 300, y |-> -100, h |-> 200, c |-> "lightskyblue"],
       [x |-> 358900, w |-> 1210, y |-> -100, h |-> 200, c |-> "lightskyblue"],
       [x |-> 360000, w |-> 40000, y |-> -100, h |-> 200, c |-> "limegreen"],
       [x |-> 384200, w |-> 300, y |-> -100, h |-> 200, c |-> "plum"] >>,
   labels |-> <<
       [x |-> 347500, y |-> 810, s |-> " 80m"],
       [x |-> 353600, y |-> -40, s |-> "CW"],
       [x |-> 359200, y |-> -40, s |-> "D"],
       [x |-> 372500, y |-> -40, s |-> "LSB"],
       [x |-> 383900, y |-> -40, s |-> "TV"],
       [x |-> 391000, y |-> -40, s |-> "LSB"] >>]

Band60m ==
  [name |-> "60m",
   left |-> 532700, right |-> 540900, ylo |-> -100, yhi |-> 1000,
   bars |-> <<
       [x |-> 533050, w |-> 300, y |-> 33, h |-> 67, c |-> "lightsalmon"],
       [x |-> 533050, w |-> 300, y |-> -33, h |-> 67, c |-> "limegreen"],
       [x |-> 533050, w |-> 300, y |-> -100, h |-> 67, c |-> "lightskyblue"],
       [x |-> 534650, w |-> 300, y |-> 33, h |-> 67, c |-> "lightsalmon"],
       [x |-> 534650, w |-> 300, y |-> -33, h |-> 67, c |-> "limegreen"],
       [x |-> 534650, w |-> 300, y |-> -100, h |-> 67, c |-> "lightskyblue"],
       [x |-> 535150, w |-> 1500, y |-> 33, h |-> 67, c |-> "lightsalmon"],
       [x |-> 535150, w |-> 1500, y |-> -33, h |-> 67, c |-> "limegreen"],
       [x |-> 535150, w |-> 1500, y |-> -100, h |-> 67, c |-> "lightskyblue"],
       [x |-> 537150, w |-> 300, y |-> 33, h |-> 67, c |-> "lightsalmon"],
       [x |-> 537150, w |-> 300, y |-> -33, h |-> 67, c |-> "limegreen"],
       [x |-> 537150, w |-> 300, y |-> -100, h |-> 67, c |-> "lightskyblue"],
       [x |-> 540350, w |-> 300, y |-> 33, h |-> 67, c |-> "lightsalmon"],
       [x |-> 540350, w |-> 300, y |-> -33, h |-> 67, c |-> "limegreen"],
       [x |-> 540350, w |-> 300, y |-> -100, h |-> 67, c |-> "lightskyblue"] >>,
   labels |-> <<
       [x |-> 532700, y |-> 810, s |-> " 60m"],
       [x |-> 533100, y |-> 29, s |-> "CW"],
       [x |-> 533100, y |-> -27, s |-> "USB"],
       [x |-> 533100, y |-> -91, s |-> "Digi"] >>]

Band40m ==
  [name |-> "40m",
   left |-> 698500, right |-> 731500, ylo |-> -100, yhi |-> 1000,
   bars |-> <<
       [x |-> 700000, w |-> 4000, y |-> -100, h |-> 200, c |-> "lightsalmon"],
       [x |-> 703500, w |-> 500, y |-> -100, h |-> 100, c |-> "lightskyblue"],
       [x |-> 704000, w |-> 26000, y |-> -100, h |-> 200, c |-> "limegreen"],
       [x |-> 707000, w |-> 5500, y |-> -100, h |-> 100, c |-> "lightskyblue"],
       [x |-> 716500, w |-> 1000, y |-> -100, h |-> 200, c |-> "plum"] >>,
   labels |-> <<
       [x |-> 698500, y |-> 810, s |-> " 40m"],
       [x |-> 701500, y |-> -40, s |-> "CW"],
       [x |-> 703550, y |-> -81, s |-> "D"],
       [x |-> 709300, y |-> -81, s |-> "Digi"],
       [x |-> 710500, y |-> 10, s |-> "LSB"],
       [x |-> 716700, y |-> -40, s |-> "TV"],
       [x |-> 723000, y |-> -40, s |-> "LSB"] >>]

Band30m ==
  [name |-> "30m",
   left |-> 1009700, right |-> 1015300, ylo |-> -100, yhi |-> 1000,
   bars |-> <<
       [x |-> 1010000, w |-> 5000, y |-> -100, h |-> 200, c |-> "lightsalmon"],
       [x |-> 1013000, w |-> 1000, y |-> -100, h |-> 200, c |-> "lightskyblue"],
       [x |-> 1014000, w |-> 1000, y |-> -100, h |-> 100, c |-> "lightskyblue"] >>,
   labels |-> <<
       [x |-> 1009700, y |-> 810, s |-> " 30m"],
       [x |-> 1011500, y |-> -40, s |-> "CW"],
       [x |-> 1013450, y |-> -40, s |-> "Digi"],
       [x |-> 1014450, y |-> 10, s |-> "CW"] >>]

Band20m ==
  [name |-> "20m",
   left |-> 1398000, right |-> 1437000, ylo |-> -100, yhi |-> 1000,
   bars |-> <<
       [x |-> 1400000, w |-> 7000, y |-> -100, h |-> 200, c |-> "lightsalmon"],
       [x |-> 1407000, w |-> 4200, y |-> -100, h |-> 200, c |-> "lightskyblue"],
       [x |-> 1407300, w |-> 2750, y |-> 0, h |-> 100, c |-> "lightsalmon"],
       [x |-> 1411200, w |-> 23800, y |-> -100, h |-> 200, c |-> "limegreen"],
       [x |-> 1423000, w |-> 600, y |-> -100, h |-> 200, c |-> "plum"] >>,
   labels |-> <<
       [x |-> 1398000, y |-> 810, s |-> " 20m"],
       [x |-> 1403300, y |-> -40, s |-> "CW"],
       [x |-> 1408200, y |-> 10, s |-> "CW"],
       [x |-> 1408700, y |-> -81, s |-> "Digi"],
       [x |-> 1417000, y |-> -40, s |-> "USB"],
       [x |-> 1422900, y |-> -40, s |-> "TV"],
       [x |-> 1428000, y |-> -40, s |-> "USB"] >>]

Band17m ==
  [name |-> "17m",
   left |-> 1806200, right |-> 1817400, ylo |-> -100, yhi |-> 1000,
   bars |-> <<
       [x |-> 1806800, w |-> 3200, y |-> -100, h |-> 200, c |-> "lightsalmon"],
       [x |-> 1809500, w |-> 500, y |-> -100, h |-> 100, c |-> "lightskyblue"],
       [x |-> 1810000, w |-> 1000, y |-> -100, h |-> 200, c |-> "lightskyblue"],
       [x |-> 1811000, w |-> 5800, y |-> -100, h |-> 200, c |-> "limegreen"] >>,
   labels |-> <<
       [x |-> 1806200, y |-> 810, s |-> " 17m"],
       [x |-> 1808200, y |-> -40, s |-> "CW"],
       [x |-> 1810200, y |-> -40, s |-> "Digi"],
       [x |-> 1813500, y |-> -40, s |-> "USB"] >>]

Band15m ==
  [name |-> "15m",
   left |-> 2097500, right |-> 2147500, ylo |-> -100, yhi |-> 1000,
   bars |-> <<
       [x |-> 2100000, w |-> 15000, y |-> -100, h |-> 200, c |-> "lightsalmon"],
       [x |-> 2107000, w |-> 5500, y |-> -100, h |-> 200, c |-> "lightskyblue"],
       [x |-> 2106000, w |-> 2000, y |-> 0, h |-> 100, c |-> "lightsalmon"],
       [x |-> 2108300, w |-> 300, y |-> 0, h |-> 100, c |-> "lightsalmon"],
       [x |-> 2112500, w |-> 2500, y |-> -100, h |-> 200, c |-> "lightsalmon"],
       [x |-> 2115000, w |-> 30000, y |-> -100, h |-> 200, c |-> "limegreen"],
       [x |-> 2134000, w |-> 300, y |-> -100, h |-> 200, c |-> "plum"] >>,
   labels |-> <<
       [x |-> 2097500, y |-> 810, s |-> " 15m"],
       [x |-> 2103000, y |-> -40, s |-> "CW"],
       [x |-> 2109500, y |-> -40, s |-> "Digi"],
       [x |-> 2113000, y |-> -40, s |-> "CW"],
       [x |-> 2124000, y |-> -40, s |-> "USB"],
       [x |-> 2133700, y |-> -40, s |-> "TV"],
       [x |-> 2139000, y |-> -40, s |-> "USB"] >>]

Band12m ==
  [name |-> "12m",
   left |-> 2488400, right |-> 2499600, ylo |-> -100, yhi |-> 1000,
   bars |-> <<
       [x |-> 2489000, w |-> 3000, y |-> -100, h |-> 200, c |-> "lightsalmon"],
       [x |-> 2492000, w |-> 2000, y |-> -100, h |-> 200, c |-> "lightskyblue"],
       [x |-> 2492500, w |-> 1500, y |-> 0, h |-> 100, c |-> "lightsalmon"],
       [x |-> 2494000, w |-> 5000, y |-> -100, h |-> 200, c |-> "limegreen"],
       [x |-> 2497500, w |-> 300, y |-> -100, h |-> 200, c |-> "plum"] >>,
   labels |-> <<
       [x |-> 2488400, y |-> 810, s |-> " 12m"],
       [x |-> 2490400, y |-> -40, s |-> "CW"],
       [x |-> 2492050, y |-> -40, s |-> "Digi"],
       [x |-> 2493000, y |-> 10, s |-> "CW"],
       [x |-> 2495600, y |-> -40, s |-> "USB"],
       [x |-> 2497550, y |-> -40, s |-> "TV"],
       [x |-> 2498200, y |-> -40, s |-> "USB"] >>]

Band10m ==
  [name |-> "10m",
   left |-> 2790000, right |-> 2980000, ylo |-> -100, yhi |-> 1000,
   bars |-> <<
       [x |-> 2800000, w |-> 35200, y |-> -100, h |-> 200, c |-> "lightsalmon"],
       [x |-> 2807000, w |-> 27500, y |-> -100, h |-> 100, c |-> "lightskyblue"],
       [x |-> 2818950, w |-> 11050, y |-> -100, h |-> 100, c |-> "mistyrose"],
       [x |-> 2818950, w |-> 1100, y |-> -100, h |-> 200, c |-> "mistyrose"],
       [x |-> 2832000, w |-> 138000, y |-> -100, h |-> 200, c |-> "limegreen"],
       [x |-> 2868000, w |-> 300, y |-> -100, h |-> 200, c |-> "plum"],
       [x |-> 2930000, w |-> 22000, y |-> -100, h |-> 200, c |-> "gold"] >>,
   labels |-> <<
       [x |-> 2790000, y |-> 810, s |-> " 10m"],
       [x |-> 2801500, y |-> -40, s |-> "CW"],
       [x |-> 2810000, y |-> -81, s |-> "Digi"],
       [x |-> 2824000, y |-> 10, s |-> "CW"],
       [x |-> 2820000, y |-> -81, s |-> "Beacon"],
       [x |-> 2830100, y |-> -81, s |-> "D"],
       [x |-> 2847000, y |-> -40, s |-> "USB"],
       [x |-> 2866500, y |-> -40, s |-> "TV"],
       [x |-> 2895000, y |-> -40, s |-> "USB"],
       [x |-> 2939000, y |-> -40, s |-> "Sat"],
       [x |-> 2959000, y |-> -40, s |-> "FM"] >>]

Band6m ==
  [name |-> "6m",
   left |-> 4978000, right |-> 5423000, ylo |-> -100, yhi |-> 1000,
   bars |-> <<
       [x |-> 5000000, w |-> 400000, y |-> -100, h |-> 200, c |-> "limegreen"],
       [x |-> 5000000, w |-> 10000, y |-> -100, h |-> 67, c |-> "lightsalmon"],
       [x |-> 5000000, w |-> 10000, y |-> -33, h |-> 67, c |-> "mistyrose"],
       [x |-> 5060000, w |-> 40000, y |-> -100, h |-> 200, c |-> "gold"],
       [x |-> 5100000, w |-> 10000, y |-> -100, h |-> 100, c |-> "lightsalmon"],
       [x |-> 5110000, w |-> 90000, y |-> -100, h |-> 100, c |-> "lightskyblue"],
       [x |-> 5109700, w |-> 500, y |-> -100, h |-> 200, c |-> "black"],
       [x |-> 5199700, w |-> 500, y |-> -100, h |-> 200, c |-> "black"],
       [x |-> 5299700, w |-> 500, y |-> -100, h |-> 200, c |-> "black"] >>,
   labels |-> <<
       [x |-> 4978000, y |-> 810, s |-> " 6m"],
       [x |-> 5025000, y |-> -40, s |-> "USB"],
       [x |-> 5000000, y |-> -91, s |-> "CW"],
       [x |-> 5000000, y |-> -30, s |-> "Beac"],
       [x |-> 5063000, y |-> -40, s |-> "Experimental"],
       [x |-> 5100000, y |-> 10, s |-> "DX"],
       [x |-> 5100000, y |-> -81, s |-> "CW"],
       [x |-> 5135000, y |-> 10, s |-> "FM Simplex"],
       [x |-> 5143000, y |-> -81, s |-> "Packet"],
       [x |-> 5220000, y |-> -40, s |-> "FM Repeater Input"],
       [x |-> 5320000, y |-> -40, s |-> "FM Repeater Output"] >>]

Band2m ==
  [name |-> "2m",
   left |-> 14390000, right |-> 14810000, ylo |-> 70, yhi |-> 210,
   bars |-> <<
       [x |-> 14400000, w |-> 37000, y |-> 70, h |-> 30, c |-> "gold"],
       [x |-> 14437000, w |-> 12000, y |-> 70, h |-> 30, c |-> "lightskyblue"],
       [x |-> 14451000, w |-> 38000, y |-> 70, h |-> 30, c |-> "limegreen"],
       [x |-> 14511000, w |-> 38000, y |-> 70, h |-> 30, c |-> "limegreen"],
       [x |-> 14459000, w |-> 2000, y |-> 70, h |-> 30, c |-> "white"],
       [x |-> 14519000, w |-> 2000, y |-> 70, h |-> 30, c |-> "white"],
       [x |-> 14491000, w |-> 18000, y |-> 70, h |-> 30, c |-> "lightskyblue"],
       [x |-> 14551000, w |-> 18000, y |-> 70, h |-> 30, c |-> "lightskyblue"],
       [x |-> 14602000, w |-> 36000, y |-> 70, h |-> 30, c |-> "limegreen"],
       [x |-> 14662000, w |-> 36000, y |-> 70, h |-> 30, c |-> "limegreen"],
       [x |-> 14700000, w |-> 38000, y |-> 70, h |-> 30, c |-> "limegreen"],
       [x |-> 14760000, w |-> 38000, y |-> 70, h |-> 30, c |-> "limegreen"],
       [x |-> 14571000, w |-> 8000, y |-> 70, h |-> 30, c |-> "lightskyblue"],
       [x |-> 14580000, w |-> 20000, y |-> 70, h |-> 30, c |-> "gold"],
       [x |-> 14641500, w |-> 18000, y |-> 70, h |-> 30, c |-> "limegreen"],
       [x |-> 14760000, w |-> 38000, y |-> 70, h |-> 30, c |-> "limegreen"],
       [x |-> 14742000, w |-> 16500, y |-> 70, h |-> 30, c |-> "gold"] >>,
   labels |-> <<
       [x |-> 14390000, y |-> 185, s |-> " 2m"],
       [x |-> 14413000, y |-> 79, s |-> "Misc"],
       [x |-> 14437000, y |-> 79, s |-> "Digi"],
       [x |-> 14511500, y |-> 88, s |-> "R$_1$"],
       [x |-> 14511500, y |-> 73, s |-> "out"],
       [x |-> 14451500, y |-> 88, s |-> "R$_1$"],
       [x |-> 14451500, y |-> 73, s |-> "in"],
       [x |-> 14527000, y |-> 79, s |-> "R$_2$ out"],
       [x |-> 14467000, y |-> 79, s |-> "R$_2$ in"],
       [x |-> 14491000, y |-> 88, s |-> "R$_2$"],
       [x |-> 14491000, y |-> 73, s |-> "in"],
       [x |-> 14551000, y |-> 88, s |-> "R$_2$"],
       [x |-> 14551000, y |-> 73, s |-> "out"],
       [x |-> 14501000, y |-> 88, s |-> "R$_1$"],
       [x |-> 14501000, y |-> 73, s |-> "out"],
       [x |-> 14561000, y |-> 88, s |-> "R$_1$"],
       [x |-> 14561000, y |-> 73, s |-> "in"],
       [x |-> 14610000, y |-> 79, s |-> "R$_3$ in"],
       [x |-> 14670000, y |-> 79, s |-> "R$_3$ out"],
       [x |-> 14710000, y |-> 79, s |-> "R$_4$ out"],
       [x |-> 14770000, y |-> 79, s |-> "R$_4$ in"],
       [x |-> 14571000, y |-> 79, s |-> "Sx"],
       [x |-> 14585000, y |-> 79, s |-> "Sat"],
       [x |-> 14641500, y |-> 79, s |-> "Sx"],
       [x |-> 14770000, y |-> 79, s |-> "R$_4$ in"],
       [x |-> 14742000, y |-> 88, s |-> "Net Lk"],
       [x |-> 14742000, y |-> 73, s |-> "Sx"] >>]

Band70cm ==
  [name |-> "70cm",
   left |-> 42950000, right |-> 45050000, ylo |-> 70, yhi |-> 210,
   bars |-> <<
       [x |-> 43005000, w |-> 90000, y |-> 70, h |-> 30, c |-> "lightskyblue"],
       [x |-> 43905000, w |-> 90000, y |-> 70, h |-> 30, c |-> "lightskyblue"],
       [x |-> 43100000, w |-> 47500, y |-> 70, h |-> 30, c |-> "grey"],
       [x |-> 43150000, w |-> 150000, y |-> 70, h |-> 30, c |-> "gold"],
       [x |-> 43302500, w |-> 97500, y |-> 70, h |-> 30, c |-> "lightskyblue"],
       [x |-> 43802500, w |-> 97500, y |-> 70, h |-> 30, c |-> "lightskyblue"],
       [x |-> 43402500, w |-> 95000, y |-> 70, h |-> 30, c |-> "limegreen"],
       [x |-> 43902500, w |-> 95000, y |-> 70, h |-> 15, c |-> "limegreen"],
       [x |-> 43500000, w |-> 300000, y |-> 70, h |-> 30, c |-> "gold"],
       [x |-> 44002500, w |-> 92500, y |-> 70, h |-> 30, c |-> "lightskyblue"],
       [x |-> 44502500, w |-> 92500, y |-> 70, h |-> 30, c |-> "lightskyblue"],
       [x |-> 44100000, w |-> 97500, y |-> 70, h |-> 30, c |-> "lightskyblue"],
       [x |-> 44200000, w |-> 97500, y |-> 70, h |-> 30, c |-> "limegreen"],
       [x |-> 44700000, w |-> 97500, y |-> 70, h |-> 30, c |-> "limegreen"],
       [x |-> 44302500, w |-> 195000, y |-> 70, h |-> 30, c |-> "limegreen"],
       [x |-> 44802500, w |-> 195000, y |-> 70, h |-> 30, c |-> "limegreen"],
       [x |-> 44600000, w |-> 97500, y |-> 70, h |-> 30, c |-> "limegreen"] >>,
   labels |-> <<
       [x |-> 42950000, y |-> 185, s |-> " 70cm"],
       [x |-> 43005000, y |-> 88, s |-> "Packet"],
       [x |-> 43005000, y |-> 73, s |-> "Output"],
       [x |-> 43905000, y |-> 88, s |-> "Packet"],
       [x |-> 43905000, y |-> 73, s |-> "Input"],
       [x |-> 43200000, y |-> 79, s |-> "Misc"],
       [x |-> 43302500, y |-> 88, s |-> "R$_1$"],
       [x |-> 43302500, y |-> 73, s |-> "Output"],
       [x |-> 43802500, y |-> 88, s |-> "R$_1$"],
       [x |-> 43802500, y |-> 73, s |-> "Input"],
       [x |-> 43402500, y |-> 88, s |-> "R$_1$"],
       [x |-> 43402500, y |-> 73, s |-> "Output"],
       [x |-> 43630000, y |-> 79, s |-> "Sat"],
       [x |-> 44002500, y |-> 88, s |-> "Digi"],
       [x |-> 44002500, y |-> 73, s |-> "Output"],
       [x |-> 44502500, y |-> 88, s |-> "Digi"],
       [x |-> 44502500, y |-> 73, s |-> "Input"],
       [x |-> 44090000, y |-> 88, s |-> "Simplex"],
       [x |-> 44100000, y |-> 73, s |-> "Link"],
       [x |-> 44200000, y |-> 88, s |-> "R$_2$"],
       [x |-> 44200000, y |-> 73, s |-> "Output"],
       [x |-> 44700000, y |-> 88, s |-> "R$_2$"],
       [x |-> 44700000, y |-> 73, s |-> "Input"],
       [x |-> 44302500, y |-> 88, s |-> "R$_3$"],
       [x |-> 44302500, y |-> 73, s |-> "Output"],
       [x |-> 44802500, y |-> 88, s |-> "R$_3$"],
       [x |-> 44802500, y |-> 73, s |-> "Input"],
       [x |-> 44600000, y |-> 79, s |-> "Simplex"] >>]

BandHF ==
  [name |-> "HF",
   left |-> 0, right |-> 5500000, ylo |-> -30, yhi |-> 2500,
   bars |-> <<
       [x |-> 180000, w |-> 20000, y |-> -30, h |-> 130, c |-> "black"],
       [x |-> 350000, w |-> 50000, y |-> -30, h |-> 130, c |-> "black"],
       [x |-> 533050, w |-> 7600, y |-> -30, h |-> 130, c |-> "black"],
       [x |-> 700000, w |-> 30000, y |-> -30, h |-> 130, c |-> "black"],
       [x |-> 1010000, w |-> 5000, y |-> -30, h |-> 130, c |-> "black"],
       [x |-> 1400000, w |-> 30000, y |-> -30, h |-> 130, c |-> "black"],
       [x |-> 1806800, w |-> 10000, y |-> -30, h |-> 130, c |-> "black"],
       [x |-> 2100000, w |-> 40000, y |-> -30, h |-> 130, c |-> "black"],
       [x |-> 2489000, w |-> 10000, y |-> -30, h |-> 130, c |-> "black"],
       [x |-> 2800000, w |-> 170000, y |-> -30, h |-> 130, c |-> "black"],
       [x |-> 5000000, w |-> 400000, y |-> -30, h |-> 130, c |-> "black"] >>,
   labels |-> <<
       [x |-> 100000, y |-> -100, s |-> "160m"],
       [x |-> 320000, y |-> -100, s |-> "80m"],
       [x |-> 505000, y |-> -100, s |-> "60m"],
       [x |-> 680000, y |-> -100, s |-> "40m"],
       [x |-> 1015000, y |-> 9, s |-> "<- 30m"],
       [x |-> 1370000, y |-> -100, s |-> "20m"],
       [x |-> 1780000, y |-> -100, s |-> "17m"],
       [x |-> 2070000, y |-> -100, s |-> "15m"],
       [x |-> 2460000, y |-> -100, s |-> "12m"],
       [x |-> 2800000, y |-> -100, s |-> "10m"],
       [x |-> 5150000, y |-> -100, s |-> "6m"] >>]

BandVHFUHF ==
  [name |-> "VHFUHF",
   left |-> 10000000, right |-> 50000000, ylo |-> 80, yhi |-> 500,
   bars |-> <<
       [x |-> 14400000, w |-> 400000, y |-> 80, h |-> 20, c |-> "black"],
       [x |-> 22200000, w |-> 300000, y |-> 80, h |-> 20, c |-> "black"],
       [x |-> 43000000, w |-> 2000000, y |-> 80, h |-> 20, c |-> "black"] >>,
   labels |-> <<
       [x |-> 13800000, y |-> 70, s |-> "2m"],
       [x |-> 22000000, y |-> 70, s |-> "135cm"],
       [x |-> 43000000, y |-> 70, s |-> "70cm"] >>]
----------------------------------------------------------------------------
(* The figure *)

\* ax[i].plot(freq, v, ...) with v one of VSWR1, VSWR3, VSWR10: a horizontal
\* line made of one point per curve frequency              (line 80-82)
RefLine(level, f) == [y |-> level, n |-> Len(f)]

\* a panel whose bars and labels are drawn only when there is a curve
PanelNeedsData(band, f, v, levels) ==
  [band   |-> band.name,
   xlim   |-> <<band.left, band.right>>,
   ylim   |-> <<band.ylo, band.yhi>>,
   bars   |-> IF Len(f) = 0 THEN <<>> ELSE band.bars,
   labels |-> IF Len(f) = 0 THEN <<>> ELSE band.labels,
   trace  |-> [f |-> f, v |-> v],
   refs   |-> [i \in DOMAIN levels |-> RefLine(levels[i], f)]]

\* a panel whose domain is set with its edges exchanged
PanelSwappedLimits(band, f, v, levels) ==
  [band   |-> band.name,
   xlim   |-> <<band.right, band.left>>,
   ylim   |-> <<band.ylo, band.yhi>>,
   bars   |-> band.bars,
   labels |-> band.labels,
   trace  |-> [f |-> f, v |-> v],
   refs   |-> [i \in DOMAIN levels |-> RefLine(levels[i], f)]]

\* a panel whose bars are drawn in the reverse of their declaration order
PanelBarsReversed(band, f, v, levels) ==
  [band   |-> band.name,
   xlim   |-> <<band.left, band.right>>,
   ylim   |-> <<band.ylo, band.yhi>>,
   bars   |-> [i \in DOMAIN band.bars |-> band.bars[Len(band.bars) + 1 - i]],
   labels |-> band.labels,
   trace  |-> [f |-> f, v |-> v],
   refs   |-> [i \in DOMAIN levels |-> RefLine(levels[i], f)]]

\* a panel that plots only the curve points inside the band's domain
PanelClipped(band, f, v, levels) ==
  LET keep == {i \in DOMAIN f : band.left <= f[i] /\ f[i] <= band.right}
      n == Cardinality(keep)
      idx == CHOOSE s \in [1..n -> keep] : \A a, b \in 1..n : a < b => s[a] < s[b]
  IN [band   |-> band.name,
      xlim   |-> <<band.left, band.right>>,
      ylim   |-> <<band.ylo, band.yhi>>,
      bars   |-> band.bars,
      labels |-> band.labels,
      trace  |-> [f |-> [i \in 1..n |-> f[idx[i]]], v |-> [i \in 1..n |-> v[idx[i]]]],
      refs   |-> [i \in DOMAIN levels |-> RefLine(levels[i], f)]]

\* One band block: domain and range, bars and labels of the catalog, the
\* measured curve and the reference lines.
Panel(band, f, v, levels) ==
  [band   |-> band.name,
   xlim   |-> <<band.left, band.right>>,
   ylim   |-> <<band.ylo, band.yhi>>,
   bars   |-> band.bars,
   labels |-> band.labels,
   trace  |-> [f |-> f, v |-> v],
   refs   |-> [i \in DOMAIN levels |-> RefLine(levels[i], f)]]

Page1Bands == <<Band2200m, Band630m, Band160m, Band80m, Band60m, Band40m,
                Band30m, Band20m>>
Page2Bands == <<Band17m, Band15m, Band12m, Band10m, Band6m, Band2m, Band70cm>>
Page3Bands == <<BandHF, BandVHFUHF>>
AllBands == Page1Bands \o Page2Bands \o Page3Bands
BandNamed(n) == CHOOSE b \in Range(AllBands) : b.name = n

\* indices of the points of a panel's trace inside the panel's domain
Visible(p) ==
  {i \in DOMAIN p.trace.f : p.xlim[1] <= p.trace.f[i] /\ p.trace.f[i] <= p.xlim[2]}

----------------------------------------------------------------------------
(* Loading *)

endswith_asd(e) == e.kind # "other"

\* list.sort(): the ascending arrangement of a set of names
sort(S) ==
  CHOOSE s \in [1..Cardinality(S) -> S] :
    Range(s) = S /\ \A i \in 1..(Len(s) - 1) : s[i] < s[i + 1]

\* the list of a file replaces the list read so far
MergeOverwrite(new, old) == new

\* line 56-60: the samples of a file go in front of those read so far
Merge(new, old) == new \o old

\* no sorting: the identity index order
argsortNone(a) == {[i \in 1..Len(a) |-> i]}

\* sorting in descending order
argsortDescending(a) ==
  {p \in Perms(Len(a)) : \A i \in 1..(Len(a) - 1) : a[p[i]] >= a[p[i + 1]]}

\* np.argsort(a): the default kind is not a stable sort, so every index
\* order that sorts a is a possible result
argsort(a) ==
  {p \in Perms(Len(a)) : IsSorted([i \in 1..Len(a) |-> a[p[i]]])}

\* a[p]: fancy indexing by an index array
Take(a, p) == [i \in DOMAIN p |-> a[p[i]]]

----------------------------------------------------------------------------
(* Initial states *)

\* line 36: PdfPages(path).  Whether the constructor already creates the
\* file depends on the matplotlib release: up to 3.7 it opens and starts the
\* file at once, from 3.8 on the file is created by the first savefig.
PdfPages(eager) == [pages |-> <<>>, closed |-> FALSE, file |-> eager]

InitRest ==
  /\ pc = "discover"
  /\ files = <<>>
  /\ k = 0
  /\ freq = <<>>
  /\ resistance = <<>>
  /\ reactance = <<>>
  /\ rho = <<>>
  /\ VSWR = <<>>
  /\ ax = <<>>
  /\ \E eager \in BOOLEAN : pdf_pages = PdfPages(eager)

Kinds == {"other", "bad", "asd"}

\* Any directory of at most MaxFiles entries whose well-formed sweep files
\* hold at most MaxTotal samples together.
Init ==
  /\ \E n \in 0..MaxFiles :
       \E kind \in [1..n -> Kinds] :
         \E cut \in [0..n -> 0..MaxTotal] :
           /\ cut[0] = 0
           /\ \A i \in 1..n : /\ cut[i - 1] <= cut[i]
                              /\ kind[i] # "asd" => cut[i] = cut[i - 1]
           /\ \E flat \in [1..cut[n] -> Samples] :
                dir = [i \in 1..n |->
                         [kind |-> kind[i],
                          data |-> SubSeq(flat, cut[i - 1] + 1, cut[i])]]
  /\ InitRest

\* One well-formed sweep file of 1..MaxCalcSamples samples over the whole
\* range of resistances and reactances.
InitCalc ==
  /\ \E m \in 1..MaxCalcSamples :
       \E data \in [1..m -> CalcSamples] :
         dir = <<[kind |-> "asd", data |-> data]>>
  /\ InitRest

----------------------------------------------------------------------------
(* Steps of the script *)

\* line 42-46
Discover ==
  /\ pc = "discover"
  /\ files' = sort({i \in DOMAIN dir : endswith_asd(dir[i])})
  /\ pc' = "read"
  /\ UNCHANGED <<dir, k, freq, resistance, reactance, rho, VSWR, ax, pdf_pages>>

\* line 52-60: one iteration of the read loop; a file that json.load or the
\* key lookups reject raises, and nothing catches it
ReadFile ==
  /\ pc = "read"
  /\ k < Len(files)
  /\ LET file == dir[files[k + 1]]
         size == Len(file.data)
     IN IF file.kind = "bad"
        THEN /\ pc' = "aborted"
             /\ UNCHANGED <<k, freq, resistance, reactance>>
        ELSE /\ freq' = Merge([i \in 1..size |-> file.data[i].fq], freq)
             /\ resistance' = Merge([i \in 1..size |-> file.data[i].r], resistance)
             /\ reactance' = Merge([i \in 1..size |-> file.data[i].x], reactance)
             /\ k' = k + 1
             /\ pc' = "read"
  /\ UNCHANGED <<dir, files, rho, VSWR, ax, pdf_pages>>

\* line 63-70
ComputeRho ==
  /\ pc = "read"
  /\ k = Len(files)
  /\ rho' = [i \in DOMAIN resistance |-> RhoOf(resistance[i], reactance[i])]
  /\ pc' = "vswr"
  /\ UNCHANGED <<dir, files, k, freq, resistance, reactance, VSWR, ax, pdf_pages>>

\* line 73
ComputeVSWR ==
  /\ pc = "vswr"
  /\ VSWR' = [i \in DOMAIN rho |-> VSWROf(rho[i])]
  /\ pc' = "sort"
  /\ UNCHANGED <<dir, files, k, freq, resistance, reactance, rho, ax, pdf_pages>>

\* line 76-77: both lines index by np.argsort of the same array
SortCurve ==
  /\ pc = "sort"
  /\ \E p \in argsort(freq) :
       /\ VSWR' = Take(VSWR, p)
       /\ freq' = Take(freq, p)
  /\ pc' = "page1"
  /\ UNCHANGED <<dir, files, k, resistance, reactance, rho, ax, pdf_pages>>

\* line 107-424
Page1 ==
  /\ pc = "page1"
  /\ ax' = [i \in 1..8 |-> Panel(Page1Bands[i], freq, VSWR, <<1, 3>>)]
  /\ pc' = "save1"
  /\ UNCHANGED <<dir, files, k, freq, resistance, reactance, rho, VSWR, pdf_pages>>

\* a savefig that starts the document over
savefigKeepLast(doc, fig) == [doc EXCEPT !.pages = <<fig>>, !.file = TRUE]

\* pdf_pages.savefig(fig)
savefig(doc, fig) == [doc EXCEPT !.pages = Append(@, fig), !.file = TRUE]

\* line 428-429
SavePage1 ==
  /\ pc = "save1"
  /\ pdf_pages' = savefig(pdf_pages, ax)
  /\ pc' = "page2"
  /\ UNCHANGED <<dir, files, k, freq, resistance, reactance, rho, VSWR, ax>>

\* line 435-880
Page2 ==
  /\ pc = "page2"
  /\ ax' = [i \in 1..7 |-> Panel(Page2Bands[i], freq, VSWR, <<1, 3>>)]
  /\ pc' = "save2"
  /\ UNCHANGED <<dir, files, k, freq, resistance, reactance, rho, VSWR, pdf_pages>>

\* line 884-885
SavePage2 ==
  /\ pc = "save2"
  /\ pdf_pages' = savefig(pdf_pages, ax)
  /\ pc' = "page3"
  /\ UNCHANGED <<dir, files, k, freq, resistance, reactance, rho, VSWR, ax>>

\* page 3 with the VSWR = 10 line plotted on both overview panels
Page3TenOnBoth ==
  /\ pc = "page3"
  /\ ax' = <<Panel(BandHF, freq, VSWR, <<1, 3, 10>>),
             Panel(BandVHFUHF, freq, VSWR, <<1, 3, 10>>)>>
  /\ pc' = "save3"
  /\ UNCHANGED <<dir, files, k, freq, resistance, reactance, rho, VSWR, pdf_pages>>

\* line 893-987
Page3 ==
  /\ pc = "page3"
  /\ ax' = <<Panel(BandHF, freq, VSWR, <<1, 3, 10>>),
             Panel(BandVHFUHF, freq, VSWR, <<1, 3>>)>>
  /\ pc' = "save3"
  /\ UNCHANGED <<dir, files, k, freq, resistance, reactance, rho, VSWR, pdf_pages>>

\* line 991-992
SavePage3 ==
  /\ pc = "save3"
  /\ pdf_pages' = savefig(pdf_pages, ax)
  /\ pc' = "close"
  /\ UNCHANGED <<dir, files, k, freq, resistance, reactance, rho, VSWR, ax>>

\* line 993
Close ==
  /\ pc = "close"
  /\ pdf_pages' = [pdf_pages EXCEPT !.closed = TRUE, !.file = TRUE]
  /\ pc' = "done"
  /\ UNCHANGED <<dir, files, k, freq, resistance, reactance, rho, VSWR, ax>>

Next ==
  \/ Discover
  \/ ReadFile
  \/ ComputeRho
  \/ ComputeVSWR
  \/ SortCurve
  \/ Page1
  \/ SavePage1
  \/ Page2
  \/ SavePage2
  \/ Page3
  \/ SavePage3
  \/ Close

Spec == Init /\ [][Next]_vars

SpecCalc == InitCalc /\ [][Next]_vars

\* the script is one thread that runs every statement to the end
SpecCalcFair == InitCalc /\ [][Next]_vars /\ WF_vars(Next)

----------------------------------------------------------------------------
(* Positions and derived views used by the properties *)

Plotting == {"page1", "save1", "page2", "save2", "page3", "save3", "close", "done"}

RhoComputed == pc \in {"vswr", "sort"} \cup Plotting
Unsorted == pc = "sort"        \* VSWR computed, still index-aligned with r, x
Sorted == pc \in Plotting

\* the samples of the first n listed files in the order of the pre-sort arrays
RECURSIVE Loaded(_)
Loaded(n) ==
  IF n = 0 THEN <<>> ELSE Merge(dir[files[n]].data, Loaded(n - 1))

\* the same for the listed files taken in the order ord
RECURSIVE LoadedIn(_, _)
LoadedIn(ord, n) ==
  IF n = 0 THEN <<>> ELSE Merge(dir[files[ord[n]]].data, LoadedIn(ord, n - 1))

PointOf(s) == <<s.fq, VSWROf(RhoOf(s.r, s.x))>>

Curve == [i \in DOMAIN freq |-> <<freq[i], VSWR[i]>>]

\* every panel composed or emitted so far
AllPanels ==
  Range(ax) \cup UNION {Range(pdf_pages.pages[i]) : i \in DOMAIN pdf_pages.pages}

----------------------------------------------------------------------------
(* C1 *)

\* rh is sqrt(((r-Z0)^2 + x^2) / ((r+Z0)^2 + x^2)) truncated to 1/Scale
IsRho(r, x, rh) ==
  LET num == (r - Z0) * (r - Z0) + x * x
      den == (r + Z0) * (r + Z0) + x * x
  IN IF den = 0
     THEN rh = PosInf
     ELSE /\ rh.k = "fin"
          /\ rh.v >= 0
          /\ rh.v * rh.v * den <= num * Scale * Scale
          /\ num * Scale * Scale < (rh.v + 1) * (rh.v + 1) * den

\* v is (1 + rh) / (1 - rh) truncated to 1/Scale, for finite rh other than 1
IsVSWR(rh, v) ==
  (rh.k = "fin" /\ rh.v # Scale) =>
     /\ v.k = "fin"
     /\ Abs(v.v * (Scale - rh.v) - (Scale + rh.v) * Scale) < Abs(Scale - rh.v)

----------------------------------------------------------------------------
(* C2 *)

Max(a, b) == IF a >= b THEN a ELSE b
Min(a, b) == IF a <= b THEN a ELSE b

\* v = (1+rh)/(1-rh) agrees with the ratio n/d to within the last digit of rh:
\* n/d lies between the value for rh and the value for rh + 1/Scale
AgreesWithRatio(rh, v, n, d) ==
  /\ rh.k = "fin"
  /\ v.k = "fin"
  /\ rh.v + 1 < Scale
  /\ v.v * d <= Scale * n
  /\ (Scale * n) * (Scale - rh.v - 1) <= (Scale + rh.v + 1) * Scale * d

\* C2: a purely resistive sample (X = 0, R > 0) has VSWR = max(R,50)/min(R,50);
\* R = 50 gives rho = 0 and VSWR = 1 exactly, and R = 25 gives VSWR = 2.
C2_Formula ==
  Unsorted =>
    \A i \in DOMAIN VSWR :
      (reactance[i] = 0 /\ resistance[i] > 0) =>
         /\ AgreesWithRatio(rho[i], VSWR[i], Max(resistance[i], Z0),
                            Min(resistance[i], Z0))
         /\ resistance[i] = 50 => (rho[i] = Fin(0) /\ VSWR[i] = One)
         /\ resistance[i] = 25 => AgreesWithRatio(rho[i], VSWR[i], 2, 1)

C2_Witness ==
  /\ Unsorted
  /\ \E i \in DOMAIN VSWR : reactance[i] = 0 /\ resistance[i] = 25

----------------------------------------------------------------------------
(* C3 *)

\* a <= b on float results; every comparison with NaN is false
Leq(a, b) ==
  CASE a.k = "nan" \/ b.k = "nan" -> FALSE
    [] a.k = "ninf" \/ b.k = "inf" -> TRUE
    [] a.k = "inf" \/ b.k = "ninf" -> FALSE
    [] OTHER -> a.v <= b.v

\* C3: every point that comes from a passive load (R >= 0, any X) has
\* vswr >= 1, before and after the sort.
C3_Formula ==
  /\ Unsorted => \A i \in DOMAIN VSWR : resistance[i] >= 0 => Leq(One, VSWR[i])
  /\ (Sorted /\ \A i \in DOMAIN resistance : resistance[i] >= 0) =>
       \A i \in DOMAIN VSWR : Leq(One, VSWR[i])

C3_Witness ==
  /\ pc = "done"
  /\ \E i \in DOMAIN resistance : resistance[i] > 0 /\ reactance[i] # 0
  /\ \A i \in DOMAIN resistance : resistance[i] >= 0

----------------------------------------------------------------------------
(* C4 *)

\* C4: after the merge+sort step the curve's frequencies are non-decreasing,
\* whatever the number and order of the files and the order inside each file.
C4_Formula ==
  Sorted => \A i, j \in DOMAIN freq : i < j => freq[i] <= freq[j]

C4_Witness ==
  /\ pc = "page1"
  /\ Len(files) = 2
  /\ \E n \in 1..2 :
       LET d == dir[files[n]].data
       IN Len(d) >= 2 /\ d[1].fq > d[2].fq
  /\ LET pre == Loaded(Len(files))
     IN \E i \in 1..(Len(pre) - 1) : pre[i].fq > pre[i + 1].fq

----------------------------------------------------------------------------
(* C5 *)

\* where the samples of the listed sweep files sit: <<file, index>>
Slots ==
  UNION {{<<n, j>> : j \in DOMAIN dir[files[n]].data} : n \in 1..Len(files)}

\* C5: the sorted curve is a permutation of all samples of all input files:
\* as many points as samples (equal frequencies included), each point pairing
\* a sample's frequency with the VSWR of that sample's r and x.
C5_Formula ==
  Sorted =>
    /\ Len(freq) = Cardinality(Slots)
    /\ Len(VSWR) = Cardinality(Slots)
    /\ \A pt \in Range(Curve) \cup {PointOf(dir[files[s[1]]].data[s[2]]) : s \in Slots} :
         Cardinality({i \in DOMAIN Curve : Curve[i] = pt})
           = Cardinality({s \in Slots : PointOf(dir[files[s[1]]].data[s[2]]) = pt})

C5_Witness ==
  /\ pc = "page1"
  /\ Len(files) = 2
  /\ \A n \in 1..2 : Len(dir[files[n]].data) >= 1
  /\ \E i \in 1..(Len(freq) - 1) : freq[i] = freq[i + 1] /\ VSWR[i] # VSWR[i + 1]

----------------------------------------------------------------------------
(* C6 *)

\* the index order of a stable ascending sort of a
StableOrder(a) ==
  CHOOSE p \in Perms(Len(a)) :
    \A i, j \in 1..Len(a) :
      i < j => \/ a[p[i]] < a[p[j]]
               \/ (a[p[i]] = a[p[j]] /\ p[i] < p[j])

\* C6: the sort of the (F, VSWR) pairs has frequency as its only key and is
\* stable: samples of equal frequency keep the relative order they had in
\* the concatenated pre-sort array.
C6_Stable ==
  Sorted =>
    LET pre == Loaded(Len(files))
        p == StableOrder([i \in DOMAIN pre |-> pre[i].fq])
    IN Curve = [i \in DOMAIN pre |-> PointOf(pre[p[i]])]

----------------------------------------------------------------------------
(* C7 *)

DistinctFrequencies ==
  \A s, t \in Slots :
    s # t => dir[files[s[1]]].data[s[2]].fq # dir[files[t[1]]].data[t[2]].fq

\* the curves the merge and the sort can give for the files taken in order ord
CurvesFor(ord) ==
  LET pre == LoadedIn(ord, Len(files))
  IN {[i \in DOMAIN pre |-> PointOf(pre[p[i]])] :
        p \in argsort([i \in DOMAIN pre |-> pre[i].fq])}

\* C7: when all sample frequencies of all files are distinct, the sorted curve
\* is the same for every order in which the files are merged.
C7_Formula ==
  (Sorted /\ DistinctFrequencies) =>
    \A ord \in Perms(Len(files)) : CurvesFor(ord) = {Curve}

C7_Witness ==
  /\ pc = "page1"
  /\ DistinctFrequencies
  /\ Len(files) = 2
  /\ Len(dir[files[1]].data) >= 1
  /\ Len(dir[files[2]].data) >= 1
  /\ dir[files[1]].data[1].fq < dir[files[2]].data[1].fq
  /\ VSWR[1] # VSWR[2]

----------------------------------------------------------------------------
(* C8 *)

HasTotalMismatch == \E i \in DOMAIN rho : rho[i] = One

\* C8: a sample with rho = 1 (R = 0, any X) gets the sentinel +infinity as
\* its VSWR; the division by zero is no error: the run does not abort, the
\* point stays in the curve, and the run goes on to emit all three pages.
C8_Formula ==
  /\ [](RhoComputed =>
          \A i \in DOMAIN rho : resistance[i] = 0 => rho[i] = One)
  /\ [](HasTotalMismatch =>
          /\ pc # "aborted"
          /\ Unsorted => \A i \in DOMAIN rho : rho[i] = One => VSWR[i] = PosInf
          /\ Sorted => \E i \in DOMAIN VSWR : VSWR[i] = PosInf
          /\ pc = "done" =>
               /\ Len(pdf_pages.pages) = 3
               /\ \A p \in AllPanels : PosInf \in Range(p.trace.v))
  /\ (HasTotalMismatch ~> (pc = "done" /\ Len(pdf_pages.pages) = 3))

C8_Witness ==
  /\ pc = "done"
  /\ \E i \in DOMAIN resistance : resistance[i] = 0 /\ reactance[i] # 0
  /\ \E i \in DOMAIN VSWR : VSWR[i] = PosInf
  /\ Len(pdf_pages.pages) = 3

----------------------------------------------------------------------------
(* C9 *)

\* the formula gives a rho above 1 by at least the resolution 1/Scale
GivesRhoAboveOne(r, x) ==
  LET num == (r - Z0) * (r - Z0) + x * x
      den == (r + Z0) * (r + Z0) + x * x
  IN den = 0 \/ num * Scale * Scale >= (Scale + 1) * (Scale + 1) * den

ExceedsOne(rh) == rh.k = "inf" \/ (rh.k = "fin" /\ rh.v > Scale)

\* v is what (1 + rh)/(1 - rh) gives for rh > 1: a negative value, or NaN
\* for an infinite rh
PassedThrough(rh, v) ==
  IF rh.k = "inf" THEN v = NaN
  ELSE v.k = "fin" /\ v.v < 0 /\ IsVSWR(rh, v)

\* C9: rho is never clamped to [0,1]: a sample whose rho exceeds 1 (R < 0)
\* keeps the VSWR the formula gives (negative, or undefined), that point is
\* in the sorted curve at the sample's frequency, and the run is not aborted.
C9_Formula ==
  /\ [](/\ RhoComputed =>
             \A i \in DOMAIN rho :
               GivesRhoAboveOne(resistance[i], reactance[i]) =>
                 /\ ExceedsOne(rho[i])
                 /\ IsRho(resistance[i], reactance[i], rho[i])
        /\ Unsorted =>
             \A i \in DOMAIN rho :
               ExceedsOne(rho[i]) => PassedThrough(rho[i], VSWR[i])
        /\ Sorted =>
             LET pre == Loaded(Len(files))
             IN \A j \in DOMAIN rho :
                  ExceedsOne(rho[j]) =>
                    \E i \in DOMAIN freq :
                      freq[i] = pre[j].fq /\ PassedThrough(rho[j], VSWR[i])
        /\ (\E i \in DOMAIN rho : ExceedsOne(rho[i])) => pc # "aborted")
  /\ ((\E i \in DOMAIN rho : ExceedsOne(rho[i])) ~> pc = "done")

C9_Witness ==
  /\ pc = "done"
  /\ \E i \in DOMAIN VSWR : VSWR[i].k = "fin" /\ VSWR[i].v < 0
  /\ \A p \in AllPanels : \E i \in DOMAIN p.trace.v : p.trace.v[i].v < 0

----------------------------------------------------------------------------
(* C10 *)

FullSet(p) ==
  /\ p.bars = BandNamed(p.band).bars
  /\ p.labels = BandNamed(p.band).labels
  /\ Len(p.bars) >= 2
  /\ Len(p.labels) >= 3

CurveMisses(b) == \A i \in DOMAIN freq : freq[i] < b.left \/ freq[i] > b.right

\* C10: the bars and labels of a panel do not depend on the sweep data: with
\* no sweep file, or with no curve point inside a band's domain, the run
\* completes, each of the 17 panels has its full bar and label set, and the
\* visible trace of such a panel has no point.
C10_Formula ==
  /\ \A p \in AllPanels : FullSet(p)
  /\ files = <<>> => pc # "aborted"
  /\ pc = "done" =>
       /\ Len(pdf_pages.pages) = 3
       /\ Len(pdf_pages.pages[1]) + Len(pdf_pages.pages[2])
            + Len(pdf_pages.pages[3]) = 17
       /\ {p.band : p \in AllPanels} = {b.name : b \in Range(AllBands)}
       /\ \A p \in AllPanels :
            /\ p.trace = [f |-> freq, v |-> VSWR]
            /\ CurveMisses(BandNamed(p.band)) => Visible(p) = {}

C10_Witness ==
  /\ pc = "done"
  /\ files = <<>>
  /\ Len(dir) = MaxFiles
  /\ Cardinality(AllPanels) = 17
  /\ \A p \in AllPanels : Visible(p) = {} /\ Len(p.bars) >= 2

----------------------------------------------------------------------------
(* C11 *)

\* a bar of non-negative width whose two ends are inside [left, right], up
\* to an overdraw of a tenth of the bar's width
BarInDomain(bar, left, right) ==
  /\ bar.w >= 0
  /\ 10 * (left - bar.x) <= bar.w
  /\ 10 * (bar.x + bar.w - right) <= bar.w

\* C11: every segment bar of every band has frequencyStart <= frequencyEnd
\* and both ends inside the owning band's domain [left, right], allowing an
\* overdraw of at most 10% of the segment's width.
C11_Formula ==
  /\ \A b \in Range(AllBands) :
       /\ b.left <= b.right
       /\ \A i \in DOMAIN b.bars : BarInDomain(b.bars[i], b.left, b.right)
  /\ \A p \in AllPanels :
       /\ p.xlim[1] <= p.xlim[2]
       /\ \A i \in DOMAIN p.bars : BarInDomain(p.bars[i], p.xlim[1], p.xlim[2])

C11_Witness ==
  /\ pc = "done"
  /\ Cardinality({p.band : p \in AllPanels}) = 17
  /\ \A p \in AllPanels :
       \E i \in DOMAIN p.bars :
         /\ p.bars[i].w > 0
         /\ p.xlim[1] < p.bars[i].x
         /\ p.bars[i].x + p.bars[i].w < p.xlim[2]

----------------------------------------------------------------------------
(* C12 *)

BandNames(page) == [i \in DOMAIN page |-> page[i].band]

\* how many pages the document holds at each position of a run
PagesEmittedAt(p) ==
  CASE p \in {"page2", "save2"} -> 1
    [] p \in {"page3", "save3"} -> 2
    [] p \in {"close", "done"} -> 3
    [] OTHER -> 0

----------------------------------------------------------------------------
(* C13 *)

\* C13: if a sweep file is not parseable the run aborts without partial
\* output: no page is emitted and no output document is left behind,
\* however many earlier files parsed correctly.
C13_NoPartialOutput ==
  pc = "aborted" => (Len(pdf_pages.pages) = 0 /\ ~pdf_pages.file)

----------------------------------------------------------------------------
(* C14 *)

\* the VSWR levels of the reference lines plotted on a panel
Levels(p) == {p.refs[i].y : i \in DOMAIN p.refs}

IsOverview(p) == p.band \in {"HF", "VHFUHF"}

\* C14 as stated: every panel has reference lines at VSWR = 1 and 3, every
\* overview panel (HF and VHF/UHF) also has one at VSWR = 10, and no
\* band-detail panel has the VSWR = 10 line.
C14_Original ==
  \A p \in AllPanels :
    /\ {1, 3} \subseteq Levels(p)
    /\ IsOverview(p) <=> 10 \in Levels(p)

\* C14 amended: every panel has reference lines at VSWR = 1 and 3; the HF
\* overview panel alone also has one at VSWR = 10: neither the VHF/UHF
\* overview panel nor any band-detail panel has the VSWR = 10 line.
C14_Formula ==
  \A p \in AllPanels :
    /\ Levels(p) = IF p.band = "HF" THEN {1, 3, 10} ELSE {1, 3}
    /\ Len(p.refs) = Cardinality(Levels(p))
    /\ \A i \in DOMAIN p.refs : p.refs[i].n = Len(p.trace.f)

C14_Witness ==
  /\ pc = "done"
  /\ Len(freq) > 0
  /\ Cardinality({p.band : p \in AllPanels}) = 17
  /\ \E p \in AllPanels : p.band = "HF" /\ 10 \in Levels(p)
  /\ \E p \in AllPanels : p.band = "VHFUHF" /\ 10 \notin Levels(p)

----------------------------------------------------------------------------
(* C15 *)

\* two bars share more than an edge in frequency / in vertical stripe
OverlapInFrequency(a, b) == a.x < b.x + b.w /\ b.x < a.x + a.w
OverlapInStripe(a, b) == a.y < b.y + b.h /\ b.y < a.y + a.h

\* the rectangle of bar a lies inside the rectangle of bar b
CoveredBy(a, b) ==
  /\ b.x <= a.x
  /\ a.x + a.w <= b.x + b.w
  /\ b.y <= a.y
  /\ a.y + a.h <= b.y + b.h

\* C15 as stated: within one band no two segment bars overlap both in
\* frequency and in their vertical (offset, height) stripes.
C15_Original ==
  \A p \in AllPanels :
    \A i, j \in DOMAIN p.bars :
      i # j => ~(OverlapInFrequency(p.bars[i], p.bars[j])
                   /\ OverlapInStripe(p.bars[i], p.bars[j]))

\* C15 amended: within one band, segments may overlap in frequency and in
\* vertical stripe as well; bars are painted in their declaration order, a
\* later bar over an earlier one, and no bar is completely covered by a later
\* bar of the same band other than an exact duplicate of itself.
C15_Formula ==
  \A p \in AllPanels :
    /\ p.bars = BandNamed(p.band).bars
    /\ \A i, j \in DOMAIN p.bars :
         (i < j /\ CoveredBy(p.bars[i], p.bars[j])) => p.bars[i] = p.bars[j]

C15_Witness ==
  /\ pc = "done"
  /\ \E p \in AllPanels :
       /\ p.band = "630m"
       /\ OverlapInFrequency(p.bars[1], p.bars[2])
       /\ OverlapInStripe(p.bars[1], p.bars[2])
       /\ CoveredBy(p.bars[2], p.bars[1])
  /\ \E p \in AllPanels :
       /\ p.band = "60m"
       /\ OverlapInFrequency(p.bars[1], p.bars[2])
       /\ OverlapInStripe(p.bars[1], p.bars[2])

----------------------------------------------------------------------------
(* C16 *)

\* C16: once the sorted curve (freq, VSWR) is produced no later step modifies
\* or recomputes it: each of the 17 panels on the three pages plots the
\* identical full curve, and as to the curve the panels differ only in their
\* frequency window and vertical axis range.
C16_Formula ==
  /\ [][Sorted => (freq' = freq /\ VSWR' = VSWR)]_vars
  /\ [](\A p \in AllPanels : p.trace = [f |-> freq, v |-> VSWR])
  /\ [](\A p, q \in AllPanels : p.trace = q.trace)
  /\ [](pc = "done" => Cardinality({p.band : p \in AllPanels}) = 17)

C16_Witness ==
  /\ pc = "done"
  /\ Len(freq) >= 2
  /\ Cardinality({p.band : p \in AllPanels}) = 17
  /\ Cardinality({p.xlim : p \in AllPanels}) = 17
  /\ Cardinality({p.ylim : p \in AllPanels}) > 1
  /\ \E p \in AllPanels : Visible(p) # {} /\ Visible(p) # DOMAIN freq
  /\ \E p \in AllPanels : Visible(p) = {}

====
